---------------------------- MODULE Spec2Model ----------------------------
(***************************************************************************)
(* Model of the STDM plugin excerpt:                                       *)
(*   - ComposerDataSourceSelector (ui/composer/composer_data_source.py)    *)
(*   - the ControlValueHandler registry and adapters                       *)
(*     (ui/helpers/valuehandlers.py)                                       *)
(*   - DatabaseCreator (data/template-database.py)                         *)
(* Each component has its own specification (SelectorSpec, RegistrySpec,   *)
(* HandlerSpec, CreatorSpec); the variables of the other components stay   *)
(* at their initial value.                                                 *)
(***************************************************************************)
EXTENDS Integers, Sequences, FiniteSets, TLC

VARIABLES
    selector,   \* the ComposerDataSourceSelector widget and the layout it writes
    registry,   \* ControlValueHandler.handlers and the order of register() calls
    adapter,    \* one ControlValueHandler instance, its control and its last call
    creator     \* one DatabaseCreator, its connection and its last call

vars == <<selector, registry, adapter, creator>>

\* Python's None, where it stands beside strings (item data, layout variables).
NONE == "<None>"

-----------------------------------------------------------------------------
(***************************************************************************)
(* ComposerDataSourceSelector                                              *)
(***************************************************************************)

\* Number of views the profile holds (profile_and_user_views).
NumViews == 2

\* Number of user tables the profile holds (profile_user_tables).
NumTables == 3

\* The names a profile can hold, in the order the profile lists them.
ViewNames == <<"v_party", "v_parcel", "v_household", "v_spatial_unit">>

\* key -> value pairs of profile_user_tables(): table name and short name.
\* "pr_supporting_document" holds the text 'supporting_document'; "pr_survey"
\* is a user table that is not an entity of the profile.
TableNames ==
    << [key |-> "pr_party", value |-> "Party"],
       [key |-> "pr_supporting_document", value |-> "Supporting_Document"],
       [key |-> "pr_survey", value |-> "Survey"],
       [key |-> "pr_parcel", value |-> "Parcel"],
       [key |-> "pr_household", value |-> "Household"] >>

\* profile_entities(): the entities of the profile (short_name, name).
EntityNames ==
    << [short_name |-> "Party", name |-> "pr_party"],
       [short_name |-> "Parcel", name |-> "pr_parcel"] >>

\* str.lower() on the names of the profile.
Lower(s) ==
    CASE s = "Party" -> "party"
      [] s = "Parcel" -> "parcel"
      [] s = "Survey" -> "survey"
      [] s = "Household" -> "household"
      [] s = "Supporting_Document" -> "supporting_document"
      [] OTHER -> s

\* table.find('supporting_document') != -1
ContainsSupportingDocument(table) == table \in {"pr_supporting_document"}

ProfileViews == SubSeq(ViewNames, 1, NumViews)
ProfileTables == SubSeq(TableNames, 1, NumTables)

\* A combo item: display text and user data (None when added without data).
Item(text, data) == [text |-> text, data |-> data]

\* QComboBox.itemText / itemData at a Qt index (0-based, -1 is "no item").
ItemText(items, i) == IF i >= 0 /\ i < Len(items) THEN items[i + 1].text ELSE ""
ItemData(items, i) == IF i >= 0 /\ i < Len(items) THEN items[i + 1].data ELSE NONE

\* QComboBox.findText / findData: the first matching index, or -1.
FindText(items, text) ==
    LET hits == {i \in 0 .. Len(items) - 1 : items[i + 1].text = text}
    IN IF hits = {} THEN -1 ELSE CHOOSE i \in hits : \A j \in hits : i <= j

FindData(items, data) ==
    LET hits == {i \in 0 .. Len(items) - 1 : items[i + 1].data = data}
    IN IF hits = {} THEN -1 ELSE CHOOSE i \in hits : \A j \in hits : i <= j

\* _populate_referenced_tables: '' first, then every entity.
RefItems ==
    <<Item("", NONE)>> \o
    [i \in 1 .. Len(EntityNames) |->
        Item(Lower(EntityNames[i].short_name), EntityNames[i].name)]

RECURSIVE TableItems(_)
TableItems(ts) ==
    IF ts = <<>> THEN <<>>
    ELSE IF ContainsSupportingDocument(Head(ts).key) THEN TableItems(Tail(ts))
    ELSE <<Item(Lower(Head(ts).value), Head(ts).key)>> \o TableItems(Tail(ts))

ViewItems == [i \in 1 .. Len(ProfileViews) |-> Item(ProfileViews[i], ProfileViews[i])]

\* category()
category(w) ==
    IF w.rbTables THEN "Table" ELSE IF w.rbViews THEN "View" ELSE NONE

\* referenced_table_name()
referenced_table_name(w) == ItemData(RefItems, w.refIdx)

\* LayoutUtils.set_stdm_*_for_layout: the setter calls on the layout.
SetLayoutDataSource(w, name) == [w EXCEPT !.layDataSource = name]
SetLayoutReferencedTable(w, name) == [w EXCEPT !.layRefTable = name]
SetLayoutCategory(w, cat) == [w EXCEPT !.layCategory = cat]

\* Mutant: the slot stores the combo's display text instead of its item data.
on_referenced_table_selected_StoresText(w) ==
    SetLayoutReferencedTable(w, ItemText(RefItems, w.refIdx))

\* on_referenced_table_selected
on_referenced_table_selected(w) ==
    SetLayoutReferencedTable(w, referenced_table_name(w))

\* cboReferencedTable.setCurrentIndex(i): currentIndexChanged fires only when
\* the index changes, and reaches the slot only once it is connected.
RefSetCurrentIndex(w, i) ==
    IF i = w.refIdx THEN w
    ELSE LET w1 == [w EXCEPT !.refIdx = i,
                             !.refChanged = @ \/ w.connected]
         IN IF w.connected THEN on_referenced_table_selected(w1) ELSE w1

\* GuiUtils.set_combo_current_index_by_text(cboReferencedTable, text)
SetRefIndexByText(w, text) ==
    LET i == FindText(RefItems, text)
    IN IF i # -1 THEN RefSetCurrentIndex(w, i)
       ELSE IF w.textMissResets THEN RefSetCurrentIndex(w, 0) ELSE w

\* GuiUtils.set_combo_index_by_data(cboReferencedTable, data)
SetRefIndexByData(w, data) ==
    LET i == FindData(RefItems, data)
    IN IF i # -1 THEN RefSetCurrentIndex(w, i)
       ELSE IF w.dataMissResets THEN RefSetCurrentIndex(w, 0) ELSE w

\* Mutant: the slot enables the referenced-table combo for a selected item but
\* never disables it for the empty one.
onDataSourceSelected_NeverDisables(w, dataSource) ==
    LET w1 == IF category(w) = "View" /\ dataSource # ""
              THEN [w EXCEPT !.refEnabled = TRUE]
              ELSE w
        w2 == IF w1.sync THEN SetRefIndexByText(w1, dataSource) ELSE w1
    IN SetLayoutDataSource(w2, ItemData(w2.dsItems, w2.dsIdx))

\* onDataSourceSelected(dataSource)
onDataSourceSelected(w, dataSource) ==
    LET w1 == IF category(w) = "View"
              THEN [w EXCEPT !.refEnabled = (dataSource # "")]
              ELSE w
        w2 == IF w1.sync THEN SetRefIndexByText(w1, dataSource) ELSE w1
    IN SetLayoutDataSource(w2, ItemData(w2.dsItems, w2.dsIdx))

\* The data-source combo's current index becomes i: currentIndexChanged[str]
\* carries the text of the new current item ('' for -1).
DsIndexChanged(w, i) ==
    LET w1 == [w EXCEPT !.dsIdx = i, !.dsChanged = @ \/ w.connected]
    IN IF w.connected THEN onDataSourceSelected(w1, ItemText(w1.dsItems, i)) ELSE w1

\* cboDataSource.setCurrentIndex(i)
DsSetCurrentIndex(w, i) == IF i = w.dsIdx THEN w ELSE DsIndexChanged(w, i)

\* GuiUtils.set_combo_index_by_data(cboDataSource, data)
SetDsIndexByData(w, data) ==
    LET i == FindData(w.dsItems, data)
    IN IF i # -1 THEN DsSetCurrentIndex(w, i)
       ELSE IF w.dataMissResets /\ Len(w.dsItems) > 0 THEN DsSetCurrentIndex(w, 0) ELSE w

\* cboDataSource.clear(): the items go and the current index becomes -1.
DsClear(w) ==
    LET w1 == [w EXCEPT !.dsItems = <<>>]
    IN IF w.dsIdx # -1 THEN DsIndexChanged(w1, -1) ELSE w1

\* cboDataSource.addItem: the first item of an empty combo becomes current.
DsAddItem(w, item) ==
    LET w1 == [w EXCEPT !.dsItems = Append(@, item)]
    IN IF Len(w.dsItems) = 0 /\ w.dsIdx = -1 THEN DsIndexChanged(w1, 0) ELSE w1

RECURSIVE DsAddItems(_, _)
DsAddItems(w, items) ==
    IF items = <<>> THEN w ELSE DsAddItems(DsAddItem(w, Head(items)), Tail(items))

\* Mutant: the reset leaves the synchronization flag as it finds it outside
\* category "Table".
ResetEnabledAndSync_KeepsSync(w) ==
    IF category(w) = "Table"
    THEN [w EXCEPT !.refEnabled = FALSE, !.sync = TRUE]
    ELSE [w EXCEPT !.refEnabled = TRUE]

\* _reset_referenced_table_combo
ResetEnabledAndSync(w) ==
    IF category(w) = "Table"
    THEN [w EXCEPT !.refEnabled = FALSE, !.sync = TRUE]
    ELSE [w EXCEPT !.refEnabled = TRUE, !.sync = FALSE]

reset_referenced_table_combo(w) ==
    ResetEnabledAndSync(IF Len(RefItems) > 0 THEN RefSetCurrentIndex(w, 0) ELSE w)

\* onShowTables(state, save_change)
onShowTables(w, state, save_change) ==
    LET w1 == IF state
              THEN DsAddItems(DsAddItem(DsClear(reset_referenced_table_combo(w)),
                                        Item("", NONE)),
                              TableItems(ProfileTables))
              ELSE w
    IN IF save_change THEN SetLayoutCategory(w1, category(w1)) ELSE w1

\* onShowViews(state, save_change)
onShowViews(w, state, save_change) ==
    LET w1 == IF state
              THEN DsAddItems(DsAddItem(DsClear(reset_referenced_table_combo(w)),
                                        Item("", NONE)),
                              ViewItems)
              ELSE w
    IN IF save_change THEN SetLayoutCategory(w1, category(w1)) ELSE w1

\* rbTables.setChecked(True): the button is checked, the other button of the
\* exclusive pair is unchecked (its toggled(False) is emitted first), then
\* toggled(True) is emitted.
CheckTables(w) ==
    IF w.rbTables THEN w
    ELSE LET w1 == [w EXCEPT !.rbTables = TRUE]
             w2 == IF w1.rbViews
                   THEN LET u == [w1 EXCEPT !.rbViews = FALSE]
                        IN IF u.connected THEN onShowViews(u, FALSE, TRUE) ELSE u
                   ELSE w1
         IN IF w2.connected
            THEN [onShowTables(w2, TRUE, TRUE) EXCEPT !.toggled = TRUE]
            ELSE w2

\* rbViews.setChecked(True)
CheckViews(w) ==
    IF w.rbViews THEN w
    ELSE LET w1 == [w EXCEPT !.rbViews = TRUE]
             w2 == IF w1.rbTables
                   THEN LET u == [w1 EXCEPT !.rbTables = FALSE]
                        IN IF u.connected THEN onShowTables(u, FALSE, TRUE) ELSE u
                   ELSE w1
         IN IF w2.connected
            THEN [onShowViews(w2, TRUE, TRUE) EXCEPT !.toggled = TRUE]
            ELSE w2

\* setCategory(categoryName)
setCategory(w, categoryName) ==
    IF categoryName = "Table" THEN CheckTables(w)
    ELSE IF categoryName = "View" THEN CheckViews(w)
    ELSE w

\* setSelectedSource(dataSourceName)
setSelectedSource(w, dataSourceName) == SetDsIndexByData(w, dataSourceName)

\* Mutant: the referenced table is selected in either category.
set_referenced_table_Unguarded(w, referenced_table) ==
    SetRefIndexByData(w, referenced_table)

\* set_referenced_table(referenced_table)
set_referenced_table(w, referenced_table) ==
    IF category(w) = "View" THEN SetRefIndexByData(w, referenced_table) ELSE w

\* set_data_source(data_source)
set_data_source(w, ds) ==
    IF ds.name = "" THEN w
    ELSE set_referenced_table(
             setSelectedSource(setCategory(w, ds.category), ds.name),
             ds.referenced_table_name)

\* The widget as setupUi leaves it, before __init__ fills it: a layout whose
\* variables hold whatever the layout was given before (l), and the two
\* behaviours of the combo helpers on a value no item holds (tm, dm).
Blank(l, tm, dm) ==
    [ rbTables |-> FALSE, rbViews |-> FALSE,
      dsItems |-> <<>>, dsIdx |-> -1,
      refIdx |-> -1, refEnabled |-> TRUE, sync |-> FALSE,
      layDataSource |-> l.ds, layRefTable |-> l.ref, layCategory |-> l.cat,
      connected |-> FALSE,
      textMissResets |-> tm, dataMissResets |-> dm,
      \* history: a connected currentIndexChanged / toggled has fired; last event
      \* and the argument of the last call made from outside
      dsChanged |-> FALSE, refChanged |-> FALSE, toggled |-> FALSE,
      op |-> "init", arg |-> NONE ]

\* __init__
Construct(l, tm, dm) ==
    LET w0 == Blank(l, tm, dm)
        \* _populate_referenced_tables: the first item becomes current
        w1 == [w0 EXCEPT !.refIdx = IF Len(RefItems) > 0 THEN 0 ELSE -1]
        w2 == [w1 EXCEPT !.sync = FALSE]
        w3 == CheckViews(w2)
        w4 == onShowViews(w3, TRUE, FALSE)
        w5 == [w4 EXCEPT !.connected = TRUE]
    IN [w5 EXCEPT !.refEnabled = FALSE]

\* What a layout may hold before the selector writes to it.
LayoutValues ==
    [ds : {NONE, "v_party"}, ref : {NONE, "pr_parcel"}, cat : {NONE, "Table"}]

\* The referenced-table names callers pass.
ReferencedTableNames == {NONE, "", "pr_parcel"}

\* The data sources set_data_source is called with.
DataSources ==
    [ name : {"", "pr_party", "pr_survey", "v_party", "no_such_source"},
      category : {"Table", "View", ""},
      referenced_table_name : ReferencedTableNames ]

SelectorInit ==
    /\ \E l \in LayoutValues, tm \in BOOLEAN, dm \in BOOLEAN :
           selector = Construct(l, tm, dm)
    /\ registry = <<>>
    /\ adapter = <<>>
    /\ creator = <<>>

\* The user checks the "Tables" radio button.
ToggleTables ==
    /\ ~selector.rbTables
    /\ selector' = [CheckTables(selector) EXCEPT !.op = "onShowTables", !.arg = NONE]
    /\ UNCHANGED <<registry, adapter, creator>>

\* The user checks the "Views" radio button.
ToggleViews ==
    /\ ~selector.rbViews
    /\ selector' = [CheckViews(selector) EXCEPT !.op = "onShowViews", !.arg = NONE]
    /\ UNCHANGED <<registry, adapter, creator>>

\* The user picks another item of the data-source combo.
SelectDataSource ==
    \E i \in 0 .. Len(selector.dsItems) - 1 :
        /\ i # selector.dsIdx
        /\ selector' = [DsSetCurrentIndex(selector, i)
                            EXCEPT !.op = "onDataSourceSelected", !.arg = NONE]
        /\ UNCHANGED <<registry, adapter, creator>>

\* The user picks another item of the referenced-table combo (when enabled).
SelectReferencedTable ==
    \E i \in 0 .. Len(RefItems) - 1 :
        /\ selector.refEnabled
        /\ i # selector.refIdx
        /\ selector' = [RefSetCurrentIndex(selector, i)
                            EXCEPT !.op = "on_referenced_table_selected", !.arg = NONE]
        /\ UNCHANGED <<registry, adapter, creator>>

\* set_data_source is called by the composer.
SetDataSource ==
    \E ds \in DataSources :
        /\ selector' = [set_data_source(selector, ds)
                            EXCEPT !.op = "set_data_source", !.arg = ds]
        /\ UNCHANGED <<registry, adapter, creator>>

\* set_referenced_table is called by the composer.
SetReferencedTable ==
    \E r \in ReferencedTableNames :
        /\ selector' = [set_referenced_table(selector, r)
                            EXCEPT !.op = "set_referenced_table", !.arg = r]
        /\ UNCHANGED <<registry, adapter, creator>>

SelectorNext ==
    \/ ToggleTables
    \/ ToggleViews
    \/ SelectDataSource
    \/ SelectReferencedTable
    \/ SetDataSource
    \/ SetReferencedTable

-----------------------------------------------------------------------------
SelectorSpec == SelectorInit /\ [][SelectorNext]_vars

-----------------------------------------------------------------------------
(***************************************************************************)
(* ControlValueHandler registry                                            *)
(***************************************************************************)

\* register() calls made after the module has loaded (by other modules).
MaxRegisterCalls == 2

\* The handler classes of the module, in the order of their register() calls.
ModuleHandlers ==
    << "LineEditValueHandler", "AdministrativeUnitLineEditValueHandler",
       "AutoGeneratedLineEditValueHandler", "RelatedEntityLineEditValueHandler",
       "MultipleSelectTreeViewValueHandler", "CheckBoxValueHandler",
       "TextEditValueHandler", "ComboBoxValueHandler", "DateEditValueHandler",
       "DateTimeEditValueHandler", "SourceDocManagerValueHandler",
       "ForeignKeyMapperValueHandler", "SpinBoxValueHandler",
       "DoubleSpinBoxValueHandler", "CoordinatesWidgetValueHandler",
       "MultipleChoiceComboBox", "ExpressionLineEditValueHandler" >>

\* Handler classes other modules define for a control kind the module already
\* serves, and the abstract base, which has no controlType.
OtherHandlers ==
    {"PlainLineEditValueHandler", "TriStateCheckBoxValueHandler", "ControlValueHandler"}

HandlerClasses == {ModuleHandlers[i] : i \in 1 .. Len(ModuleHandlers)} \cup OtherHandlers

\* cls.controlType.staticMetaObject.className(); NONE where the class has no
\* controlType attribute.
controlType(cls) ==
    CASE cls = "LineEditValueHandler" -> "QLineEdit"
      [] cls = "AdministrativeUnitLineEditValueHandler" -> "AdministrativeUnitLineEdit"
      [] cls = "AutoGeneratedLineEditValueHandler" -> "AutoGeneratedLineEdit"
      [] cls = "RelatedEntityLineEditValueHandler" -> "RelatedEntityLineEdit"
      [] cls = "MultipleSelectTreeViewValueHandler" -> "MultipleSelectTreeView"
      [] cls = "CheckBoxValueHandler" -> "QCheckBox"
      [] cls = "TextEditValueHandler" -> "QTextEdit"
      [] cls = "ComboBoxValueHandler" -> "QComboBox"
      [] cls = "DateEditValueHandler" -> "QDateEdit"
      [] cls = "DateTimeEditValueHandler" -> "QDateTimeEdit"
      [] cls = "SourceDocManagerValueHandler" -> "SourceDocumentManager"
      [] cls = "ForeignKeyMapperValueHandler" -> "ForeignKeyMapper"
      [] cls = "SpinBoxValueHandler" -> "QSpinBox"
      [] cls = "DoubleSpinBoxValueHandler" -> "QDoubleSpinBox"
      [] cls = "CoordinatesWidgetValueHandler" -> "CoordinatesWidget"
      [] cls = "MultipleChoiceComboBox" -> "MultipleChoiceCombo"
      [] cls = "ExpressionLineEditValueHandler" -> "ExpressionLineEdit"
      [] cls = "PlainLineEditValueHandler" -> "QLineEdit"
      [] cls = "TriStateCheckBoxValueHandler" -> "QCheckBox"
      [] OTHER -> NONE

\* The capability set of an adapter.
Capabilities == {"value", "setValue", "supportsMandatory", "default", "clear"}

\* The base classes of a handler class, as its class statement lists them.
HandlerBases(cls) ==
    CASE cls = "ControlValueHandler" -> << >>
      [] cls \in {"AdministrativeUnitLineEditValueHandler",
                  "AutoGeneratedLineEditValueHandler", "TextEditValueHandler",
                  "ComboBoxValueHandler"} -> << "LineEditValueHandler" >>
      [] cls = "RelatedEntityLineEditValueHandler" ->
             << "AdministrativeUnitLineEditValueHandler" >>
      [] cls = "ExpressionLineEditValueHandler" ->
             << "LineEditValueHandler", "DoubleSpinBoxValueHandler",
                "SpinBoxValueHandler" >>
      [] OTHER -> << "ControlValueHandler" >>

\* The methods a class body defines itself.
Defines(cls) ==
    CASE cls = "ControlValueHandler" ->
             Capabilities \cup {"setControl", "register", "isControlTypeValid"}
      [] cls = "RelatedEntityLineEditValueHandler" -> {}
      [] cls = "MultipleChoiceComboBox" -> {"value", "setValue", "default", "clear"}
      [] cls \in {ModuleHandlers[i] : i \in 1 .. Len(ModuleHandlers)} -> Capabilities
      [] OTHER -> {}    \* a class of another module: its body is not known here

\* s without the elements that occur again later in it.
RECURSIVE KeepLast(_)
KeepLast(s) ==
    IF s = << >> THEN << >>
    ELSE IF \E i \in 2 .. Len(s) : s[i] = s[1]
         THEN KeepLast(Tail(s))
         ELSE << s[1] >> \o KeepLast(Tail(s))

\* The method resolution order of a class: the class, then the orders of its
\* bases from left to right, a class shared by several bases coming after all
\* of them (which is what Python's linearisation gives for these classes,
\* whose only shared ancestor is the root).
RECURSIVE Mro(_)
RECURSIVE MroOfBases(_)
Mro(cls) == << cls >> \o KeepLast(MroOfBases(HandlerBases(cls)))
MroOfBases(bases) ==
    IF bases = << >> THEN << >> ELSE Mro(bases[1]) \o MroOfBases(Tail(bases))

\* The class whose body supplies attribute m of an instance of cls; NONE when
\* the lookup fails.
Resolve(cls, m) ==
    LET mro == Mro(cls)
        hits == {i \in 1 .. Len(mro) : m \in Defines(mro[i])}
    IN IF hits = {} THEN NONE
       ELSE mro[CHOOSE i \in hits : \A j \in hits : i <= j]

\* What calling capability m on an instance of cls does before the method
\* body proper runs: NONE when a concrete body is reached.  The body of each
\* capability in the abstract base is 'raise NotImplementedError'.
CapabilityRaises(cls, m) ==
    CASE Resolve(cls, m) = NONE -> "AttributeError"
      [] Resolve(cls, m) = "ControlValueHandler" /\ m \in Capabilities ->
             "NotImplementedError"
      [] OTHER -> NONE

\* A dict as the set of its (key, value) entries; d[k] = v replaces the entry
\* under k, if any.
DictSet(d, k, v) == {e \in d : e.key # k} \cup {[key |-> k, value |-> v]}
DictKeys(d) == {e.key : e \in d}
DictGet(d, k) == {e.value : e \in {x \in d : x.key = k}}

\* Mutant: the first registration of a control kind is kept (setdefault).
register_KeepsFirst(r, cls) ==
    IF controlType(cls) = NONE
    THEN [r EXCEPT !.log = Append(@, cls), !.raised = "AttributeError"]
    ELSE [r EXCEPT !.handlers = IF controlType(cls) \in DictKeys(@) THEN @
                                ELSE DictSet(@, controlType(cls), cls),
                   !.log = Append(@, cls), !.raised = NONE]

\* ControlValueHandler.register (classmethod)
register(r, cls) ==
    IF controlType(cls) = NONE
    THEN [r EXCEPT !.log = Append(@, cls), !.raised = "AttributeError"]
    ELSE [r EXCEPT !.handlers = DictSet(@, controlType(cls), cls),
                   !.log = Append(@, cls), !.raised = NONE]

\* handlers = {} as the class body leaves it; log is the history of register()
\* calls, raised the outcome of the last one.
RegistryInit ==
    /\ registry = [handlers |-> {}, log |-> <<>>, raised |-> NONE]
    /\ selector = <<>>
    /\ adapter = <<>>
    /\ creator = <<>>

\* Module load: the next module-level <Class>.register() statement runs.
LoadRegister ==
    /\ Len(registry.log) < Len(ModuleHandlers)
    /\ registry' = register(registry, ModuleHandlers[Len(registry.log) + 1])
    /\ UNCHANGED <<selector, adapter, creator>>

\* After the load, any handler class may be registered.
Register ==
    \E cls \in HandlerClasses :
        /\ Len(registry.log) >= Len(ModuleHandlers)
        /\ Len(registry.log) < Len(ModuleHandlers) + MaxRegisterCalls
        /\ registry' = register(registry, cls)
        /\ UNCHANGED <<selector, adapter, creator>>

RegistryNext ==
    \/ LoadRegister
    \/ Register

RegistrySpec == RegistryInit /\ [][RegistryNext]_vars

-----------------------------------------------------------------------------
(***************************************************************************)
(* Python values handed to and returned by the adapters                    *)
(***************************************************************************)

\* A value: its type t, a number n and a string s (a sequence of characters).
\* int and bool hold the number itself, float holds it in hundredths, a
\* QDate / QDateTime holds a day number (2000-01-01 is day 0).
NoneVal == [t |-> "None", n |-> 0, s |-> <<>>]
StrVal(chars) == [t |-> "str", n |-> 0, s |-> chars]
IntVal(i) == [t |-> "int", n |-> i, s |-> <<>>]
FloatVal(hundredths) == [t |-> "float", n |-> hundredths, s |-> <<>>]
BoolVal(b) == [t |-> "bool", n |-> IF b THEN 1 ELSE 0, s |-> <<>>]
DateVal(d) == [t |-> "QDate", n |-> d, s |-> <<>>]
DateTimeVal(d) == [t |-> "QDateTime", n |-> d, s |-> <<>>]
ListVal == [t |-> "list", n |-> 0, s |-> <<>>]

IsNumber(v) == v.t \in {"int", "float", "bool"}

\* The number a numeric value stands for, in hundredths.
Hundredths(v) == IF v.t = "float" THEN v.n ELSE v.n * 100

\* Python's ==: numbers compare by value across int, float and bool; values
\* of different kinds are unequal.
PyEq(a, b) ==
    IF IsNumber(a) /\ IsNumber(b) THEN Hundredths(a) = Hundredths(b)
    ELSE a = b

Digits == <<"0", "1", "2", "3", "4", "5", "6", "7", "8", "9">>
IsDigit(c) == \E i \in 1 .. 10 : Digits[i] = c
DigitValue(c) == (CHOOSE i \in 1 .. 10 : Digits[i] = c) - 1

\* str.lower(), character by character.
LowerChar(c) ==
    CASE c = "Y" -> "y" [] c = "E" -> "e" [] c = "S" -> "s" [] c = "T" -> "t"
      [] c = "R" -> "r" [] c = "U" -> "u" [] c = "N" -> "n" [] c = "O" -> "o"
      [] c = "A" -> "a" [] c = "B" -> "b" [] c = "C" -> "c" [] c = "F" -> "f"
      [] c = "L" -> "l"
      [] OTHER -> c

StrLower(chars) == [i \in 1 .. Len(chars) |-> LowerChar(chars[i])]

\* str.strip() of blanks, as int() and float() apply it to their argument.
RECURSIVE StripLeft(_)
StripLeft(chars) ==
    IF chars # <<>> /\ Head(chars) = " " THEN StripLeft(Tail(chars)) ELSE chars

RECURSIVE StripRight(_)
StripRight(chars) ==
    IF chars # <<>> /\ chars[Len(chars)] = " "
    THEN StripRight(SubSeq(chars, 1, Len(chars) - 1))
    ELSE chars

AllDigits(chars) == \A i \in 1 .. Len(chars) : IsDigit(chars[i])

RECURSIVE DigitsValue(_)
DigitsValue(chars) ==
    IF chars = <<>> THEN 0
    ELSE DigitsValue(SubSeq(chars, 1, Len(chars) - 1)) * 10 + DigitValue(chars[Len(chars)])

\* The text without its sign, and the sign.
Unsigned(chars) ==
    IF chars # <<>> /\ Head(chars) \in {"+", "-"} THEN Tail(chars) ELSE chars
SignOf(chars) == IF chars # <<>> /\ Head(chars) = "-" THEN -1 ELSE 1

\* int(text): [ok, n]; not ok is ValueError.
ParseInt(chars) ==
    LET body == StripRight(StripLeft(chars))
        u == Unsigned(body)
    IN IF u # <<>> /\ AllDigits(u)
       THEN [ok |-> TRUE, n |-> SignOf(body) * DigitsValue(u)]
       ELSE [ok |-> FALSE, n |-> 0]

\* Position of the first "." of the text, 0 if there is none.
DotAt(chars) ==
    LET dots == {i \in 1 .. Len(chars) : chars[i] = "."}
    IN IF dots = {} THEN 0 ELSE CHOOSE i \in dots : \A j \in dots : i <= j

\* The first two decimals of a fraction, as hundredths.
FractionHundredths(chars) ==
    (IF Len(chars) >= 1 THEN DigitValue(chars[1]) * 10 ELSE 0)
    + (IF Len(chars) >= 2 THEN DigitValue(chars[2]) ELSE 0)

\* float(text) for decimal literals (digits, optional "." and decimals):
\* [ok, n] with n in hundredths; not ok is ValueError.
ParseFloat(chars) ==
    LET body == StripRight(StripLeft(chars))
        u == Unsigned(body)
        d == DotAt(u)
        whole == IF d = 0 THEN u ELSE SubSeq(u, 1, d - 1)
        frac == IF d = 0 THEN <<>> ELSE SubSeq(u, d + 1, Len(u))
    IN IF AllDigits(whole) /\ AllDigits(frac) /\ (whole # <<>> \/ frac # <<>>)
       THEN [ok |-> TRUE,
             n |-> SignOf(body) * (DigitsValue(whole) * 100 + FractionHundredths(frac))]
       ELSE [ok |-> FALSE, n |-> 0]

\* str(i) for an integer.
RECURSIVE NatToChars(_)
NatToChars(i) ==
    IF i < 10 THEN <<Digits[i + 1]>>
    ELSE NatToChars(i \div 10) \o <<Digits[(i % 10) + 1]>>

IntToChars(i) == IF i < 0 THEN <<"-">> \o NatToChars(-i) ELSE NatToChars(i)

\* str(x) for a float held in hundredths: "7.0", "7.5", "7.25".
FloatToChars(h) ==
    LET a == IF h < 0 THEN -h ELSE h
        f == a % 100
        decimals == IF f % 10 = 0 THEN <<Digits[(f \div 10) + 1]>>
                    ELSE <<Digits[(f \div 10) + 1], Digits[(f % 10) + 1]>>
    IN (IF h < 0 THEN <<"-">> ELSE <<>>) \o NatToChars(a \div 100) \o <<".">> \o decimals

\* str(value)
PyStr(v) ==
    CASE v.t = "str" -> v.s
      [] v.t = "int" -> IntToChars(v.n)
      [] v.t = "float" -> FloatToChars(v.n)
      [] v.t = "bool" -> IF v.n = 1 THEN <<"T", "r", "u", "e">> ELSE <<"F", "a", "l", "s", "e">>
      [] v.t = "None" -> <<"N", "o", "n", "e">>
      [] OTHER -> <<"[", "]">>

\* int(value): [raised, n].
PyInt(v) ==
    CASE v.t = "str" ->
            IF ParseInt(v.s).ok THEN [raised |-> NONE, n |-> ParseInt(v.s).n]
            ELSE [raised |-> "ValueError", n |-> 0]
      [] v.t \in {"int", "bool"} -> [raised |-> NONE, n |-> v.n]
      [] v.t = "float" ->
            [raised |-> NONE,
             n |-> IF v.n >= 0 THEN v.n \div 100 ELSE -((-v.n) \div 100)]
      [] OTHER -> [raised |-> "TypeError", n |-> 0]

\* float(value): [raised, n] with n in hundredths.
PyFloat(v) ==
    CASE v.t = "str" ->
            IF ParseFloat(v.s).ok THEN [raised |-> NONE, n |-> ParseFloat(v.s).n]
            ELSE [raised |-> "ValueError", n |-> 0]
      [] IsNumber(v) -> [raised |-> NONE, n |-> Hundredths(v)]
      [] OTHER -> [raised |-> "TypeError", n |-> 0]

-----------------------------------------------------------------------------
(***************************************************************************)
(* The Qt controls the adapters read and write                             *)
(***************************************************************************)

\* Day numbers the model's dates range over (day 0 is a fresh date edit's
\* 2000-01-01; the current date is day 1 or later).
MaxDay == 2

\* The range of a fresh QSpinBox, and of a fresh QDoubleSpinBox in hundredths.
SpinBoxRange == [minimum |-> 0, maximum |-> 99]
DoubleSpinBoxRange == [minimum |-> 0, maximum |-> 9999]

Clamp(x, range) ==
    IF x < range.minimum THEN range.minimum
    ELSE IF x > range.maximum THEN range.maximum ELSE x

\* A control: its class, its text (the label for a check box), whether it is
\* checked, its number, its date, the output_data_type of its column, and
\* whether the C++ object behind it is still there.  kind "None" is no control.
NoControl ==
    [kind |-> "None", text |-> <<>>, checked |-> FALSE, num |-> 0, date |-> 0,
     tag |-> "", alive |-> TRUE]

NewControl(kind, tag) == [NoControl EXCEPT !.kind = kind, !.tag = tag]

\* The classes a control class derives from.
Bases(kind) ==
    CASE kind = "AutoGeneratedLineEdit" -> {"QLineEdit"}
      [] kind = "ExpressionLineEdit" -> {"QLineEdit"}
      [] kind = "QDateEdit" -> {"QDateTimeEdit"}
      [] OTHER -> {}

\* isinstance(control, type)
IsInstance(ctl, type) == ctl.kind = type \/ type \in Bases(ctl.kind)

\* The methods and attributes of a control that the adapters use.
Methods(kind) ==
    CASE kind = "QLineEdit" -> {"text", "setText", "clear"}
      [] kind = "AutoGeneratedLineEdit" -> {"text", "setText", "clear", "clear_line_edit"}
      [] kind = "ExpressionLineEdit" ->
            {"text", "setText", "clear", "clear_line_edit", "column"}
      [] kind = "QTextEdit" -> {"toPlainText", "setText", "clear"}
      [] kind = "QCheckBox" -> {"isChecked", "setChecked", "text", "setText"}
      [] kind = "QSpinBox" -> {"value", "setValue", "clear"}
      [] kind = "QDoubleSpinBox" -> {"value", "setValue", "clear"}
      [] kind = "QDateEdit" -> {"date", "setDate", "clear"}
      [] kind = "QDateTimeEdit" -> {"dateTime", "setDateTime", "clear"}
      [] OTHER -> {}

\* getattr(self.control, m) succeeds.
HasAttr(ctl, m) == m \in Methods(ctl.kind)

\* The binding accepts the argument for the method's parameter type.
ArgAccepted(ctl, m, arg) ==
    CASE m = "setText" -> arg.t = "str"
      [] m = "setChecked" -> arg.t \in {"bool", "int"}
      [] m = "setValue" ->
            IF ctl.kind = "QSpinBox" THEN arg.t \in {"int", "bool"} ELSE IsNumber(arg)
      [] m = "setDate" -> arg.t = "QDate"
      [] m = "setDateTime" -> arg.t = "QDateTime"
      [] OTHER -> TRUE

\* The outcome of a call: the control after it, the value returned, the
\* exception raised (NONE for none), whether the control was read or written,
\* and the number of warning dialogs shown.
Outcome(ctl, ret, raised, used) ==
    [ctl |-> ctl, ret |-> ret, raised |-> raised, used |-> used, dialogs |-> 0]

\* What the method does to a live control of a class that has it.
Effect(ctl, m, arg) ==
    CASE m \in {"text", "toPlainText"} -> Outcome(ctl, StrVal(ctl.text), NONE, TRUE)
      [] m = "setText" -> Outcome([ctl EXCEPT !.text = arg.s], NoneVal, NONE, TRUE)
      [] m \in {"clear", "clear_line_edit"} ->
            IF ctl.kind \in {"QSpinBox", "QDoubleSpinBox", "QDateEdit", "QDateTimeEdit"}
            THEN Outcome(ctl, NoneVal, NONE, TRUE)
            ELSE Outcome([ctl EXCEPT !.text = <<>>], NoneVal, NONE, TRUE)
      [] m = "isChecked" -> Outcome(ctl, BoolVal(ctl.checked), NONE, TRUE)
      [] m = "setChecked" -> Outcome([ctl EXCEPT !.checked = (arg.n # 0)], NoneVal, NONE, TRUE)
      [] m = "value" ->
            Outcome(ctl, IF ctl.kind = "QSpinBox" THEN IntVal(ctl.num) ELSE FloatVal(ctl.num),
                    NONE, TRUE)
      [] m = "setValue" ->
            Outcome([ctl EXCEPT !.num = IF ctl.kind = "QSpinBox"
                                        THEN Clamp(arg.n, SpinBoxRange)
                                        ELSE Clamp(Hundredths(arg), DoubleSpinBoxRange)],
                    NoneVal, NONE, TRUE)
      [] m = "date" -> Outcome(ctl, DateVal(ctl.date), NONE, TRUE)
      [] m = "dateTime" -> Outcome(ctl, DateTimeVal(ctl.date), NONE, TRUE)
      [] m \in {"setDate", "setDateTime"} ->
            Outcome([ctl EXCEPT !.date = arg.n], NoneVal, NONE, TRUE)
      [] OTHER -> Outcome(ctl, NoneVal, NONE, TRUE)

\* self.control.m(arg) once the attribute has been found: a deleted C++ object
\* raises RuntimeError, an argument of the wrong type TypeError.  Which of the
\* two the binding reports when both apply is the binding's choice (selfFirst).
Invoke(ctl, m, arg, selfFirst) ==
    IF ~ctl.alive /\ (selfFirst \/ ArgAccepted(ctl, m, arg))
    THEN Outcome(ctl, NoneVal, "RuntimeError", FALSE)
    ELSE IF ~ArgAccepted(ctl, m, arg) THEN Outcome(ctl, NoneVal, "TypeError", FALSE)
    ELSE Effect(ctl, m, arg)

\* self.control.m(arg): the attribute lookup, then the call.
Call(ctl, m, arg, selfFirst) ==
    IF ~HasAttr(ctl, m) THEN Outcome(ctl, NoneVal, "AttributeError", FALSE)
    ELSE Invoke(ctl, m, arg, selfFirst)

-----------------------------------------------------------------------------
(***************************************************************************)
(* The adapters (ControlValueHandler subclasses)                           *)
(***************************************************************************)

\* The adapter classes whose control is a Qt class or a line edit derived from
\* one; the other adapters delegate to controls defined outside this module.
AdapterClasses ==
    {"LineEditValueHandler", "AutoGeneratedLineEditValueHandler", "CheckBoxValueHandler",
     "TextEditValueHandler", "DateEditValueHandler", "DateTimeEditValueHandler",
     "SpinBoxValueHandler", "DoubleSpinBoxValueHandler", "ExpressionLineEditValueHandler"}

\* default()
default(a) ==
    CASE a.cls = "DateEditValueHandler" -> DateVal(a.today)
      [] a.cls = "DateTimeEditValueHandler" -> DateTimeVal(a.today)
      [] OTHER -> NoneVal

\* supportsMandatory()
supportsMandatory(a) ==
    a.cls \in {"LineEditValueHandler", "AutoGeneratedLineEditValueHandler",
               "TextEditValueHandler", "ExpressionLineEditValueHandler"}

\* isControlTypeValid(): True, or TypeError.
isControlTypeValid(a) ==
    IF a.control.kind = "None" \/ ~IsInstance(a.control, controlType(a.cls))
    THEN Outcome(a.control, NoneVal, "TypeError", FALSE)
    ELSE Outcome(a.control, BoolVal(TRUE), NONE, FALSE)

\* A method body that returns without touching the control.
Pass(a) == Outcome(a.control, NoneVal, NONE, FALSE)

\* self.control.m(arg) inside a method of adapter a.
Ctl(a, m, arg) == Call(a.control, m, arg, a.selfFirst)

\* LineEditValueHandler.value / AutoGeneratedLineEditValueHandler.value
LineEdit_value(a) ==
    LET t == Ctl(a, "text", NoneVal)
    IN IF t.raised # NONE THEN t
       ELSE IF t.ret = StrVal(<<>>) THEN [t EXCEPT !.ret = default(a)]
       ELSE Ctl(a, "text", NoneVal)

\* LineEditValueHandler.setValue
LineEdit_setValue(a, value) == Ctl(a, "setText", value)

\* LineEditValueHandler.clear
LineEdit_clear(a) == Ctl(a, "clear", NoneVal)

\* AutoGeneratedLineEditValueHandler.setValue
AutoGenerated_setValue(a, value) ==
    IF value.t # "None" THEN Ctl(a, "setText", value) ELSE Pass(a)

\* AutoGeneratedLineEditValueHandler.clear / ExpressionLineEditValueHandler.clear
AutoGenerated_clear(a) == Ctl(a, "clear_line_edit", NoneVal)

\* The texts CheckBoxValueHandler.setValue takes for True.
TrueTokens == {<<"y", "e", "s">>, <<"t", "r", "u", "e">>, <<"t">>, <<"1">>}

\* CheckBoxValueHandler.value
CheckBox_value(a) == Ctl(a, "isChecked", NoneVal)

\* Mutant: the text is compared without lower().
CheckBox_setValue_CaseSensitive(a, value) ==
    IF value.t = "str"
    THEN Ctl(a, "setChecked", BoolVal(value.s \in TrueTokens))
    ELSE IF value.t = "None" THEN Ctl(a, "setChecked", BoolVal(FALSE))
    ELSE Ctl(a, "setChecked", value)

\* CheckBoxValueHandler.setValue
CheckBox_setValue(a, value) ==
    IF value.t = "str"
    THEN Ctl(a, "setChecked", BoolVal(StrLower(value.s) \in TrueTokens))
    ELSE IF value.t = "None" THEN Ctl(a, "setChecked", BoolVal(FALSE))
    ELSE Ctl(a, "setChecked", value)

\* CheckBoxValueHandler.clear
CheckBox_clear(a) == Ctl(a, "setChecked", BoolVal(FALSE))

\* TextEditValueHandler.value
TextEdit_value(a) == Ctl(a, "toPlainText", NoneVal)

\* TextEditValueHandler.setValue
TextEdit_setValue(a, value) == Ctl(a, "setText", value)

\* TextEditValueHandler.clear
TextEdit_clear(a) == Ctl(a, "clear", NoneVal)

\* Mutant: RuntimeError is swallowed like TypeError, with no dialog.
WarnOrPass_Silent(o) ==
    IF o.raised \in {"RuntimeError", "TypeError"} THEN [o EXCEPT !.raised = NONE]
    ELSE o

\* except RuntimeError: QMessageBox.warning(...); except TypeError: pass
WarnOrPass(o) ==
    IF o.raised = "RuntimeError" THEN [o EXCEPT !.raised = NONE, !.dialogs = 1]
    ELSE IF o.raised = "TypeError" THEN [o EXCEPT !.raised = NONE]
    ELSE o

\* DateEditValueHandler.value
DateEdit_value(a) == Ctl(a, "date", NoneVal)

\* DateEditValueHandler.setValue
DateEdit_setValue(a, value) ==
    IF value.t # "None" THEN WarnOrPass(Ctl(a, "setDate", value)) ELSE Pass(a)

\* DateEditValueHandler.clear
DateEdit_clear(a) == Ctl(a, "setDate", DateVal(a.today))

\* DateTimeEditValueHandler.value
DateTimeEdit_value(a) == Ctl(a, "dateTime", NoneVal)

\* DateTimeEditValueHandler.setValue
DateTimeEdit_setValue(a, value) == WarnOrPass(Ctl(a, "setDateTime", value))

\* DateTimeEditValueHandler.clear
DateTimeEdit_clear(a) == Ctl(a, "setDateTime", DateTimeVal(a.today))

\* SpinBoxValueHandler.value / DoubleSpinBoxValueHandler.value
SpinBox_value(a) == Ctl(a, "value", NoneVal)

\* self.control.setValue(conv(value)): the attribute is looked up, then the
\* argument is converted, then the call is made.
SetConverted(a, conv, number) ==
    IF ~HasAttr(a.control, "setValue") THEN Outcome(a.control, NoneVal, "AttributeError", FALSE)
    ELSE IF conv.raised # NONE THEN Outcome(a.control, NoneVal, conv.raised, FALSE)
    ELSE Invoke(a.control, "setValue", number, a.selfFirst)

\* Mutant: None is skipped instead of being written as 0.
SpinBox_setValue_SkipsNone(a, value) ==
    IF ~PyEq(value, NoneVal)
    THEN SetConverted(a, PyInt(value), IntVal(PyInt(value).n))
    ELSE Pass(a)

\* SpinBoxValueHandler.setValue
SpinBox_setValue(a, value) ==
    IF ~PyEq(value, NoneVal)
    THEN SetConverted(a, PyInt(value), IntVal(PyInt(value).n))
    ELSE Ctl(a, "setValue", IntVal(0))

\* DoubleSpinBoxValueHandler.setValue
DoubleSpinBox_setValue(a, value) ==
    IF ~PyEq(value, NoneVal)
    THEN SetConverted(a, PyFloat(value), FloatVal(PyFloat(value).n))
    ELSE Ctl(a, "setValue", IntVal(0))

\* SpinBoxValueHandler.clear / DoubleSpinBoxValueHandler.clear
SpinBox_clear(a) == Ctl(a, "clear", NoneVal)

\* One branch of ExpressionLineEditValueHandler.value: default() for empty
\* text, else the text converted.
ConvertedText(a, type) ==
    LET t == Ctl(a, "text", NoneVal)
        t2 == Ctl(a, "text", NoneVal)
    IN IF t.raised # NONE THEN t
       ELSE IF t.ret = StrVal(<<>>) THEN [t EXCEPT !.ret = default(a)]
       ELSE IF t2.raised # NONE THEN t2
       ELSE CASE type = "float" ->
                    IF PyFloat(t2.ret).raised # NONE
                    THEN [t2 EXCEPT !.ret = NoneVal, !.raised = PyFloat(t2.ret).raised]
                    ELSE [t2 EXCEPT !.ret = FloatVal(PyFloat(t2.ret).n)]
              [] type = "int" ->
                    IF PyInt(t2.ret).raised # NONE
                    THEN [t2 EXCEPT !.ret = NoneVal, !.raised = PyInt(t2.ret).raised]
                    ELSE [t2 EXCEPT !.ret = IntVal(PyInt(t2.ret).n)]
              [] OTHER -> t2

\* Mutant: the 'int' branch returns the text unconverted.
Expression_value_IntAsText(a) ==
    IF ~HasAttr(a.control, "column")
    THEN Outcome(a.control, NoneVal, "AttributeError", FALSE)
    ELSE IF a.control.tag = "float" THEN ConvertedText(a, "float")
    ELSE IF a.control.tag = "int" THEN ConvertedText(a, "str")
    ELSE IF a.control.tag = "str" THEN ConvertedText(a, "str")
    ELSE Outcome(a.control, NoneVal, NONE, TRUE)

\* ExpressionLineEditValueHandler.value
Expression_value(a) ==
    IF ~HasAttr(a.control, "column")
    THEN Outcome(a.control, NoneVal, "AttributeError", FALSE)
    ELSE IF a.control.tag = "float" THEN ConvertedText(a, "float")
    ELSE IF a.control.tag = "int" THEN ConvertedText(a, "int")
    ELSE IF a.control.tag = "str" THEN ConvertedText(a, "str")
    ELSE Outcome(a.control, NoneVal, NONE, TRUE)

\* ExpressionLineEditValueHandler.setValue
Expression_setValue(a, value) ==
    IF value.t # "None" THEN Ctl(a, "setText", StrVal(PyStr(value))) ELSE Pass(a)

\* value(), by the class of the adapter
value(a) ==
    CASE a.cls \in {"LineEditValueHandler", "AutoGeneratedLineEditValueHandler"} ->
            LineEdit_value(a)
      [] a.cls = "CheckBoxValueHandler" -> CheckBox_value(a)
      [] a.cls = "TextEditValueHandler" -> TextEdit_value(a)
      [] a.cls = "DateEditValueHandler" -> DateEdit_value(a)
      [] a.cls = "DateTimeEditValueHandler" -> DateTimeEdit_value(a)
      [] a.cls \in {"SpinBoxValueHandler", "DoubleSpinBoxValueHandler"} -> SpinBox_value(a)
      [] a.cls = "ExpressionLineEditValueHandler" -> Expression_value(a)

\* setValue(value), by the class of the adapter
setValue(a, v) ==
    CASE a.cls = "LineEditValueHandler" -> LineEdit_setValue(a, v)
      [] a.cls = "AutoGeneratedLineEditValueHandler" -> AutoGenerated_setValue(a, v)
      [] a.cls = "CheckBoxValueHandler" -> CheckBox_setValue(a, v)
      [] a.cls = "TextEditValueHandler" -> TextEdit_setValue(a, v)
      [] a.cls = "DateEditValueHandler" -> DateEdit_setValue(a, v)
      [] a.cls = "DateTimeEditValueHandler" -> DateTimeEdit_setValue(a, v)
      [] a.cls = "SpinBoxValueHandler" -> SpinBox_setValue(a, v)
      [] a.cls = "DoubleSpinBoxValueHandler" -> DoubleSpinBox_setValue(a, v)
      [] a.cls = "ExpressionLineEditValueHandler" -> Expression_setValue(a, v)

\* clear(), by the class of the adapter
clear(a) ==
    CASE a.cls = "LineEditValueHandler" -> LineEdit_clear(a)
      [] a.cls \in {"AutoGeneratedLineEditValueHandler", "ExpressionLineEditValueHandler"} ->
            AutoGenerated_clear(a)
      [] a.cls = "CheckBoxValueHandler" -> CheckBox_clear(a)
      [] a.cls = "TextEditValueHandler" -> TextEdit_clear(a)
      [] a.cls = "DateEditValueHandler" -> DateEdit_clear(a)
      [] a.cls = "DateTimeEditValueHandler" -> DateTimeEdit_clear(a)
      [] a.cls \in {"SpinBoxValueHandler", "DoubleSpinBoxValueHandler"} -> SpinBox_clear(a)

\* The texts a user types and callers pass.
Texts ==
    { <<>>, <<"7">>, <<"4", "2">>, <<"-", "3">>, <<"7", ".", "5">>, <<"a", "b", "c">>,
      <<"y", "e", "s">>, <<"Y", "E", "S">>, <<"T", "r", "u", "e">>, <<"t">>, <<"1">>,
      <<"n", "o">> }

\* The values setValue is called with.
Values ==
    {NoneVal, ListVal}
    \cup {StrVal(t) : t \in Texts}
    \cup {IntVal(0), IntVal(1), IntVal(7), IntVal(150)}
    \cup {FloatVal(750), FloatVal(700)}
    \cup {BoolVal(TRUE), BoolVal(FALSE)}
    \cup {DateVal(d) : d \in 0 .. MaxDay}
    \cup {DateTimeVal(d) : d \in 0 .. MaxDay}

\* The values an adapter class is called with: every value whose handling the
\* binding fixes (a float for a bool parameter and the str() of a Qt date are
\* left out).
ValuesFor(cls) ==
    CASE cls = "CheckBoxValueHandler" -> {v \in Values : v.t # "float"}
      [] cls = "ExpressionLineEditValueHandler" ->
            {v \in Values : v.t \notin {"QDate", "QDateTime"}}
      [] OTHER -> Values

\* The output_data_type tags of an expression column.
ColumnTags == {"int", "float", "str", "date"}

\* The controls setControl is called with: a fresh control of the adapter's
\* controlType, of a class derived from it, or of another class.
ControlsFor(cls) ==
    {NoControl}
    \cup {NewControl(controlType(cls), g) :
            g \in IF controlType(cls) = "ExpressionLineEdit" THEN ColumnTags ELSE {""}}
    \cup (IF cls = "LineEditValueHandler"
          THEN {NewControl("AutoGeneratedLineEdit", "")}
               \cup {NewControl("ExpressionLineEdit", g) : g \in {"int"}}
          ELSE {})
    \cup {NewControl(k, "") : k \in {"QLineEdit", "QTextEdit", "QCheckBox"}}

\* An adapter as cls() leaves it: the class attribute control = None.  today
\* is the current date, selfFirst the binding's order of checks; op, arg, ret,
\* raised, used, changed and dialogs record the last call and its outcome.
NewAdapter(cls, selfFirst) ==
    [ cls |-> cls, control |-> NoControl, selfFirst |-> selfFirst, today |-> 1,
      op |-> "new", arg |-> NoneVal, ret |-> NoneVal, raised |-> NONE,
      used |-> FALSE, changed |-> FALSE, dialogs |-> 0 ]

\* The adapter after a call with outcome o.
After(a, op, arg, o) ==
    [a EXCEPT !.control = o.ctl, !.op = op, !.arg = arg, !.ret = o.ret,
              !.raised = o.raised, !.used = o.used,
              !.changed = (o.ctl # a.control), !.dialogs = o.dialogs]

\* The adapter after an event that is not a call of one of its methods.
Event(a, op, ctl) ==
    [a EXCEPT !.control = ctl, !.op = op, !.arg = NoneVal, !.ret = NoneVal,
              !.raised = NONE, !.used = FALSE, !.changed = FALSE, !.dialogs = 0]

HandlerInit ==
    /\ \E cls \in AdapterClasses, sf \in BOOLEAN : adapter = NewAdapter(cls, sf)
    /\ selector = <<>>
    /\ registry = <<>>
    /\ creator = <<>>

\* setControl(control)
SetControl ==
    \E c \in ControlsFor(adapter.cls) :
        /\ adapter' = Event(adapter, "setControl", c)
        /\ UNCHANGED <<selector, registry, creator>>

\* value()
CallValue ==
    /\ adapter' = After(adapter, "value", NoneVal, value(adapter))
    /\ UNCHANGED <<selector, registry, creator>>

\* setValue(v)
CallSetValue ==
    \E v \in ValuesFor(adapter.cls) :
        /\ adapter' = After(adapter, "setValue", v, setValue(adapter, v))
        /\ UNCHANGED <<selector, registry, creator>>

\* clear()
CallClear ==
    /\ adapter' = After(adapter, "clear", NoneVal, clear(adapter))
    /\ UNCHANGED <<selector, registry, creator>>

\* isControlTypeValid()
CallIsControlTypeValid ==
    /\ adapter' = After(adapter, "isControlTypeValid", NoneVal, isControlTypeValid(adapter))
    /\ UNCHANGED <<selector, registry, creator>>

\* The user types into a live text control.
UserTypes ==
    \E t \in Texts :
        /\ adapter.control.alive
        /\ adapter.control.kind \in
               {"QLineEdit", "AutoGeneratedLineEdit", "ExpressionLineEdit", "QTextEdit"}
        /\ adapter' = Event(adapter, "edit", [adapter.control EXCEPT !.text = t])
        /\ UNCHANGED <<selector, registry, creator>>

\* The user clicks a live check box.
UserClicks ==
    /\ adapter.control.alive
    /\ adapter.control.kind = "QCheckBox"
    /\ adapter' = Event(adapter, "edit", [adapter.control EXCEPT !.checked = ~@])
    /\ UNCHANGED <<selector, registry, creator>>

\* The user steps a live spin box to another number of its range.
UserSpins ==
    \E n \in {0, 7, 42, 99} :
        /\ adapter.control.alive
        /\ adapter.control.kind \in {"QSpinBox", "QDoubleSpinBox"}
        /\ adapter' = Event(adapter, "edit",
               [adapter.control EXCEPT
                   !.num = IF adapter.control.kind = "QSpinBox" THEN n ELSE n * 100 + n])
        /\ UNCHANGED <<selector, registry, creator>>

\* The user picks a date in a live date edit.
UserPicksDate ==
    \E d \in 0 .. MaxDay :
        /\ adapter.control.alive
        /\ adapter.control.kind \in {"QDateEdit", "QDateTimeEdit"}
        /\ adapter' = Event(adapter, "edit", [adapter.control EXCEPT !.date = d])
        /\ UNCHANGED <<selector, registry, creator>>

\* Qt deletes the C++ object behind the control; the Python wrapper stays.
DestroyControl ==
    /\ adapter.control.kind # "None"
    /\ adapter.control.alive
    /\ adapter' = Event(adapter, "destroy", [adapter.control EXCEPT !.alive = FALSE])
    /\ UNCHANGED <<selector, registry, creator>>

\* Midnight passes.
Tick ==
    /\ adapter.today < MaxDay
    /\ adapter' = [Event(adapter, "tick", adapter.control) EXCEPT !.today = @ + 1]
    /\ UNCHANGED <<selector, registry, creator>>

HandlerNext ==
    \/ SetControl
    \/ CallValue
    \/ CallSetValue
    \/ CallClear
    \/ CallIsControlTypeValid
    \/ UserTypes
    \/ UserClicks
    \/ UserSpins
    \/ UserPicksDate
    \/ DestroyControl
    \/ Tick

HandlerSpec == HandlerInit /\ [][HandlerNext]_vars

-----------------------------------------------------------------------------
(***************************************************************************)
(* DatabaseCreator                                                         *)
(***************************************************************************)

\* Calls of createDb / createDbExtension on one DatabaseCreator.
MaxCreatorCalls == 3

DbNames == {"stdm", "stdm_test"}
Templates == {NONE, "postgis"}

\* The exceptions the database driver raises for a statement that fails.
DriverErrors == {"OperationalError", "ProgrammingError"}

\* A format string as the sequence of its literal pieces and conversion
\* specifiers.
dbStmt == << "CREATE DATABASE ", "%s" >>

\* fmt % arg for a string argument: "%s" is replaced by the argument, a "%"
\* with nothing after it raises ValueError (incomplete format).
RECURSIVE FormatPieces(_, _)
FormatPieces(fmt, arg) ==
    IF fmt = << >> THEN << >>
    ELSE << (IF fmt[1] = "%s" THEN arg ELSE fmt[1]) >> \o FormatPieces(Tail(fmt), arg)

PercentFormat(fmt, arg) ==
    IF \E i \in 1 .. Len(fmt) : fmt[i] = "%"
    THEN [raised |-> "ValueError", text |-> << >>]
    ELSE [raised |-> NONE, text |-> FormatPieces(fmt, arg)]

\* 'raise ex.message'. Python 2: every exception has a message attribute, a
\* string, and raising a string is a TypeError. Python 3: the exception has
\* no message attribute and the lookup raises AttributeError.
RaiseMessage(c, ex) ==
    IF c.python = "2" THEN "TypeError" ELSE "AttributeError"

\* The driver runs one statement: it is recorded as sent, and fails with the
\* exception 'outcome' unless 'outcome' is NONE.
Execute(c, stmt, outcome) ==
    [c EXCEPT !.sent = Append(@, stmt), !.attempts = @ + 1, !.failed = outcome]

\* The state a method call starts from.
Enter(c, name) ==
    [c EXCEPT !.op = name, !.raised = NONE, !.failed = NONE, !.attempts = 0,
              !.calls = @ + 1]

\* DatabaseCreator.createDb. Line 49 reads 'session.execute(dbStmt) % self.':
\* the statement is executed as it is, unformatted, and '%' is applied to the
\* result of execute and an attribute of self, which is a TypeError for a
\* result object. An exception of execute leaves through the method (there is
\* no handler), so the isolation level (0 while the statement runs, 1 before
\* and after) is not set back.
createDb(c, outcome) ==
    LET c1 == [Enter(c, "createDb") EXCEPT !.isolation = 0]
        c2 == Execute(c1, dbStmt, outcome)
    IN IF c2.failed # NONE
       THEN [c2 EXCEPT !.raised = c2.failed]
       ELSE [c2 EXCEPT !.raised = "TypeError"]

\* DatabaseCreator.createDbExtension
createDbExtension(c, outcome) ==
    LET c1 == Enter(c, "createDbExtension")
        sql == IF c1.template # NONE
               THEN PercentFormat(<< "CREATE EXTENSION ", "%" >>, c1.template)
               ELSE [raised |-> NONE, text |-> << "CREATE EXTENSION postgis" >>]
    IN IF sql.raised # NONE
       THEN [c1 EXCEPT !.raised = RaiseMessage(c1, sql.raised)]
       ELSE LET c2 == Execute(c1, sql.text, outcome)
            IN IF c2.failed # NONE
               THEN [c2 EXCEPT !.raised = RaiseMessage(c2, c2.failed)]
               ELSE c2

\* Before the module is imported. python is the interpreter's major version.
\* line49 says how the source is compiled: "incomplete" is the file as it
\* stands, whose line 49 ends in 'self.' and does not parse; "attribute" is
\* the same line with the attribute name written out, every other statement
\* as in the file.
CreatorInit ==
    /\ \E py \in {"2", "3"}, l49 \in {"incomplete", "attribute"} :
           creator = [python |-> py, line49 |-> l49, loaded |-> FALSE,
                      constructed |-> FALSE, dbName |-> NONE, template |-> NONE,
                      isolation |-> 1, sent |-> << >>,
                      op |-> NONE, raised |-> NONE, failed |-> NONE,
                      attempts |-> 0, calls |-> 0]
    /\ selector = <<>>
    /\ registry = <<>>
    /\ adapter = <<>>

\* import of the module: compiling the file as it stands raises SyntaxError
\* and defines nothing.
ImportModule ==
    /\ creator.op = NONE
    /\ creator' = IF creator.line49 = "incomplete"
                  THEN [creator EXCEPT !.op = "import", !.raised = "SyntaxError"]
                  ELSE [creator EXCEPT !.op = "import", !.loaded = TRUE]
    /\ UNCHANGED <<selector, registry, adapter>>

\* DatabaseCreator.__init__
NewDatabaseCreator ==
    \E dbname \in DbNames, template \in Templates :
        /\ creator.loaded
        /\ ~creator.constructed
        /\ creator' = [creator EXCEPT !.op = "__init__", !.constructed = TRUE,
                                      !.dbName = dbname, !.template = template]
        /\ UNCHANGED <<selector, registry, adapter>>

CallCreateDb ==
    \E outcome \in {NONE} \cup DriverErrors :
        /\ creator.constructed
        /\ creator.calls < MaxCreatorCalls
        /\ creator' = createDb(creator, outcome)
        /\ UNCHANGED <<selector, registry, adapter>>

CallCreateDbExtension ==
    \E outcome \in {NONE} \cup DriverErrors :
        /\ creator.constructed
        /\ creator.calls < MaxCreatorCalls
        /\ creator' = createDbExtension(creator, outcome)
        /\ UNCHANGED <<selector, registry, adapter>>

CreatorNext ==
    \/ ImportModule
    \/ NewDatabaseCreator
    \/ CallCreateDb
    \/ CallCreateDbExtension

CreatorSpec == CreatorInit /\ [][CreatorNext]_vars

-----------------------------------------------------------------------------
(***************************************************************************)
(* Claims about ComposerDataSourceSelector (checked under SelectorSpec)    *)
(***************************************************************************)

\* C1 (as stated): after the category "Table" is selected the referenced-table
\* combo is disabled and the synchronization flag is on; after the category
\* "View" is selected the referenced-table combo is enabled and the flag is off.
C1_AsStated ==
    /\ selector.op = "onShowTables" => ~selector.refEnabled /\ selector.sync
    /\ selector.op = "onShowViews" => selector.refEnabled /\ ~selector.sync

\* C1 (amended): after the category "Table" is selected the referenced-table
\* combo is disabled and the synchronization flag is on; after the category
\* "View" is selected the flag is off and the referenced-table combo is
\* disabled, because repopulating the data-source combo leaves its empty first
\* item current and onDataSourceSelected('') disables the combo.
C1_CategorySelected ==
    /\ selector.op = "onShowTables" => ~selector.refEnabled /\ selector.sync
    /\ selector.op = "onShowViews" =>
           /\ ~selector.sync
           /\ ItemText(selector.dsItems, selector.dsIdx) = ""
           /\ ~selector.refEnabled

\* C1 witness: "View" has been selected again after "Table", and the combo is
\* disabled with the flag off.
C1_Witness ==
    /\ selector.op = "onShowViews"
    /\ selector.layCategory = "View"
    /\ ~selector.refEnabled
    /\ ~selector.sync

\* C2: once a combo's current item has changed, the layout holds the item data
\* of the data-source combo's current item and referenced_table_name(); once a
\* category button has been toggled, the layout holds category().
C2_LayoutHoldsSelection ==
    /\ selector.dsChanged =>
           selector.layDataSource = ItemData(selector.dsItems, selector.dsIdx)
    /\ selector.refChanged =>
           selector.layRefTable = referenced_table_name(selector)
    /\ selector.toggled => selector.layCategory = category(selector)

\* C2 witness: both combos have changed, a category was toggled, and the layout
\* holds a data source and a referenced table that are not None.
C2_Witness ==
    /\ selector.dsChanged /\ selector.refChanged /\ selector.toggled
    /\ selector.layDataSource # NONE
    /\ selector.layRefTable # NONE
    /\ selector.layRefTable = referenced_table_name(selector)

-----------------------------------------------------------------------------
(***************************************************************************)
(* Claims about the registry (checked under RegistrySpec)                  *)
(***************************************************************************)

\* The positions of the register() calls made for control kind k.
CallsFor(k) == {i \in 1 .. Len(registry.log) : controlType(registry.log[i]) = k}

\* C3: the registry holds at most one class per control-type class name, its
\* keys are the control kinds registered so far, and the class under a name is
\* the one registered last for it (every other entry is as it was registered).
C3_LastWriteWins ==
    /\ \A e1 \in registry.handlers, e2 \in registry.handlers :
           e1.key = e2.key => e1 = e2
    /\ DictKeys(registry.handlers) =
           {controlType(registry.log[i]) : i \in 1 .. Len(registry.log)} \ {NONE}
    /\ \A k \in DictKeys(registry.handlers) :
           \E j \in CallsFor(k) :
               /\ \A i \in CallsFor(k) : i <= j
               /\ DictGet(registry.handlers, k) = {registry.log[j]}

\* C3 witness: two different classes were registered under one control kind and
\* the registry holds the second.
C3_Witness ==
    \E i \in 1 .. Len(registry.log), j \in 1 .. Len(registry.log) :
        /\ i < j
        /\ registry.log[i] # registry.log[j]
        /\ controlType(registry.log[i]) = controlType(registry.log[j])
        /\ controlType(registry.log[j]) # NONE
        /\ DictGet(registry.handlers, controlType(registry.log[j])) = {registry.log[j]}

-----------------------------------------------------------------------------
(***************************************************************************)
(* Claims about the adapters (checked under HandlerSpec)                   *)
(***************************************************************************)

\* The adapter's control is set and is an instance of its controlType.
ControlFits(a) == a.control.kind # "None" /\ IsInstance(a.control, controlType(a.cls))

\* ... and the C++ object behind it is still there.
ControlLive(a) == ControlFits(a) /\ a.control.alive

\* C4 (as stated): for every adapter kind, after setValue(default()) on a
\* fitting live control, value() returns a value equal to default().
C4_AsStated ==
    (adapter.op = "setValue" /\ adapter.arg = default(adapter) /\ ControlLive(adapter)) =>
        /\ adapter.raised = NONE
        /\ value(adapter).raised = NONE
        /\ PyEq(value(adapter).ret, default(adapter))

\* The texts of the model that equal "yes", "true", "t" or "1" when case is
\* ignored.
C5_TrueTexts ==
    {<<"y", "e", "s">>, <<"Y", "E", "S">>, <<"T", "r", "u", "e">>, <<"t">>, <<"1">>}

\* C5 (as stated): CheckBoxValueHandler: after setValue of a text that equals
\* "yes", "true", "t" or "1" ignoring case value() is True; after setValue of
\* any other value, None included, value() is False.
C5_AsStated ==
    (adapter.cls = "CheckBoxValueHandler" /\ adapter.op = "setValue"
        /\ ControlLive(adapter) /\ adapter.raised = NONE) =>
        value(adapter).ret =
            BoolVal(adapter.arg.t = "str" /\ adapter.arg.s \in C5_TrueTexts)

\* C5 (amended): CheckBoxValueHandler: after setValue of a text that equals
\* "yes", "true", "t" or "1" ignoring case value() is True; after setValue of
\* any other text, or of None, value() is False; after setValue of a boolean or
\* an integer x, value() is the truth value of x.
C5_CheckBoxSetValue ==
    (adapter.cls = "CheckBoxValueHandler" /\ adapter.op = "setValue"
        /\ ControlLive(adapter)) =>
        /\ adapter.arg.t = "str" =>
               /\ adapter.raised = NONE
               /\ value(adapter).ret = BoolVal(adapter.arg.s \in C5_TrueTexts)
        /\ adapter.arg.t = "None" =>
               adapter.raised = NONE /\ value(adapter).ret = BoolVal(FALSE)
        /\ adapter.arg.t \in {"bool", "int"} =>
               adapter.raised = NONE /\ value(adapter).ret = BoolVal(adapter.arg.n # 0)

\* C5 witness: setValue("YES") has checked a check box that was unchecked.
C5_Witness ==
    /\ adapter.cls = "CheckBoxValueHandler" /\ adapter.op = "setValue"
    /\ ControlLive(adapter)
    /\ adapter.arg = StrVal(<<"Y", "E", "S">>)
    /\ adapter.changed
    /\ adapter.control.checked

\* C6: SpinBoxValueHandler and DoubleSpinBoxValueHandler: after setValue(None)
\* value() is 0 whatever the number was; after setValue("7") value() is the
\* int 7 on the spin adapter and the float 7.0 on the double-spin adapter
\* (likewise "42").
C6_NumericSetValue ==
    (adapter.cls \in {"SpinBoxValueHandler", "DoubleSpinBoxValueHandler"}
        /\ adapter.op = "setValue" /\ ControlLive(adapter)) =>
        /\ adapter.arg = NoneVal =>
               /\ adapter.raised = NONE
               /\ value(adapter).raised = NONE
               /\ PyEq(value(adapter).ret, IntVal(0))
        /\ \A t \in {<<"7">>, <<"4", "2">>} :
               adapter.arg = StrVal(t) =>
                   /\ adapter.raised = NONE
                   /\ value(adapter).ret =
                          IF adapter.cls = "SpinBoxValueHandler"
                          THEN IntVal(IF t = <<"7">> THEN 7 ELSE 42)
                          ELSE FloatVal(IF t = <<"7">> THEN 700 ELSE 4200)

\* C6 witness: setValue(None) has brought a spin box from another number to 0.
C6_Witness ==
    /\ adapter.cls = "SpinBoxValueHandler" /\ adapter.op = "setValue"
    /\ ControlLive(adapter)
    /\ adapter.arg = NoneVal
    /\ adapter.changed
    /\ adapter.control.num = 0

\* C7: ExpressionLineEditValueHandler.value() with tag "int" and text "42"
\* returns the int 42, with "float" the float 42.0, with "str" the text; with
\* empty text it returns default(), which is None, for each of the three tags.
C7_ExpressionValue ==
    (adapter.cls = "ExpressionLineEditValueHandler" /\ adapter.op = "value"
        /\ ControlLive(adapter) /\ adapter.control.tag \in {"int", "float", "str"}) =>
        /\ adapter.control.text = <<>> =>
               /\ adapter.raised = NONE
               /\ adapter.ret = NoneVal
               /\ default(adapter) = NoneVal
        /\ adapter.control.text = <<"4", "2">> =>
               /\ adapter.raised = NONE
               /\ adapter.ret = CASE adapter.control.tag = "int" -> IntVal(42)
                                  [] adapter.control.tag = "float" -> FloatVal(4200)
                                  [] adapter.control.tag = "str" -> StrVal(<<"4", "2">>)

\* C7 witness: value() has returned the int 42 for the text "42" and tag "int".
C7_Witness ==
    /\ adapter.cls = "ExpressionLineEditValueHandler" /\ adapter.op = "value"
    /\ ControlLive(adapter)
    /\ adapter.control.tag = "int"
    /\ adapter.control.text = <<"4", "2">>
    /\ adapter.ret = IntVal(42)

\* C8 (as stated): value(), setValue() or clear() on an adapter whose control
\* is None or not an instance of its controlType raises TypeError and neither
\* reads nor writes the control.
C8_AsStated ==
    (adapter.op \in {"value", "setValue", "clear"} /\ ~ControlFits(adapter)) =>
        /\ adapter.raised = "TypeError"
        /\ ~adapter.used
        /\ ~adapter.changed

\* The values that are of the wrong type for an adapter's control.
C9_Incompatible(cls, v) ==
    CASE cls \in {"SpinBoxValueHandler"} ->
            v.t \in {"list", "QDate", "QDateTime"} \/ (v.t = "str" /\ ~ParseInt(v.s).ok)
      [] cls \in {"DoubleSpinBoxValueHandler"} ->
            v.t \in {"list", "QDate", "QDateTime"} \/ (v.t = "str" /\ ~ParseFloat(v.s).ok)
      [] cls \in {"LineEditValueHandler", "AutoGeneratedLineEditValueHandler",
                  "TextEditValueHandler"} -> v.t # "str"
      [] cls = "DateEditValueHandler" -> v.t # "QDate"
      [] cls = "DateTimeEditValueHandler" -> v.t # "QDateTime"
      [] cls = "CheckBoxValueHandler" -> v.t \in {"list", "QDate", "QDateTime"}
      [] OTHER -> FALSE

\* C9 (as stated): for every adapter kind, setValue with a value of the wrong
\* type raises nothing and leaves the control as it was.
C9_AsStated ==
    (adapter.op = "setValue" /\ ControlLive(adapter)
        /\ C9_Incompatible(adapter.cls, adapter.arg)) =>
        adapter.raised = NONE /\ ~adapter.changed

\* C10 (as stated): for every adapter kind, value() on a control that is empty
\* (here: a text control with empty text) returns default().
C10_AsStated ==
    (adapter.op = "value" /\ ControlLive(adapter) /\ adapter.raised = NONE
        /\ adapter.control.kind \in
               {"QLineEdit", "AutoGeneratedLineEdit", "ExpressionLineEdit", "QTextEdit"}
        /\ adapter.control.text = <<>>) =>
        PyEq(adapter.ret, default(adapter))

\* The exception the control raises for the setter call that the last
\* setValue of a date or date-time adapter made (NONE when it raised none or
\* made no call).  A failing call leaves the control as it was, so the call
\* can be repeated on the control of the state after it.
DateSetterRaised(a) ==
    IF a.cls = "DateEditValueHandler"
    THEN IF a.arg.t = "None" THEN NONE
         ELSE Call(a.control, "setDate", a.arg, a.selfFirst).raised
    ELSE Call(a.control, "setDateTime", a.arg, a.selfFirst).raised

\* C13: when the control of a date or date-time adapter raises RuntimeError
\* for the setter call of setValue (its C++ object is gone), the adapter
\* shows exactly one warning dialog, raises nothing to its caller, and the
\* control is as it was before the call.
C13_RuntimeErrorCaught ==
    (/\ adapter.cls \in {"DateEditValueHandler", "DateTimeEditValueHandler"}
     /\ adapter.op = "setValue"
     /\ DateSetterRaised(adapter) = "RuntimeError") =>
        /\ adapter.dialogs = 1
        /\ adapter.raised = NONE
        /\ ~adapter.changed

\* A date edit holding day 1 whose C++ object was deleted, and setValue(day 2)
\* on it: the warning was shown and day 1 is still there.
C13_Witness ==
    /\ adapter.cls = "DateEditValueHandler"
    /\ adapter.op = "setValue"
    /\ adapter.control.kind = "QDateEdit"
    /\ ~adapter.control.alive
    /\ adapter.arg = DateVal(2)
    /\ adapter.control.date = 1
    /\ DateSetterRaised(adapter) = "RuntimeError"
    /\ adapter.dialogs = 1
    /\ adapter.raised = NONE

-----------------------------------------------------------------------------
(***************************************************************************)
(* Claims about the adapter classes (checked under RegistrySpec)           *)
(***************************************************************************)

\* C11, as stated: once the module has loaded (all its register() statements
\* have run and nothing else has been registered), every class in the
\* registry reaches a concrete body for each of value(), setValue(),
\* supportsMandatory(), default() and clear(): none resolves to the abstract
\* base's 'raise NotImplementedError'.
C11_AsStated ==
    registry.log = ModuleHandlers =>
        \A e \in registry.handlers : \A m \in Capabilities :
            CapabilityRaises(e.value, m) = NONE

-----------------------------------------------------------------------------
(***************************************************************************)
(* Claims about DatabaseCreator (checked under CreatorSpec)                *)
(***************************************************************************)

\* C12, as stated: when the statement run by createDb or createDbExtension
\* fails with a driver exception E, the call raises that same exception E to
\* its caller, and the statement was sent to the driver once only.
C12_AsStated ==
    (creator.op \in {"createDb", "createDbExtension"} /\ creator.failed # NONE) =>
        /\ creator.raised = creator.failed
        /\ creator.attempts = 1

-----------------------------------------------------------------------------
(***************************************************************************)
(* Further claims about ComposerDataSourceSelector (checked under          *)
(* SelectorSpec)                                                           *)
(***************************************************************************)

\* C14: between events of a constructed selector, whatever toggles,
\* selections and set_data_source calls came before, the synchronization flag
\* is on exactly when category() is "Table", and in category "Table" the
\* referenced-table combo is disabled.
C14_SyncIffTable ==
    /\ selector.sync <=> (category(selector) = "Table")
    /\ category(selector) = "Table" => ~selector.refEnabled

\* Category "Table" after a set_data_source call that followed a toggle and
\* selections in both combos.
C14_Witness ==
    /\ selector.op = "set_data_source"
    /\ selector.toggled /\ selector.dsChanged /\ selector.refChanged
    /\ category(selector) = "Table"
    /\ selector.sync
    /\ ~selector.refEnabled
    /\ selector.dsIdx > 0

\* What the selector shows and what the layout holds: the state without the
\* record of the last call.
Shown(w) == [w EXCEPT !.op = "", !.arg = NONE]

\* C15: set_data_source with a data source of empty name changes nothing the
\* selector shows or the layout holds; and when the category after
\* set_data_source is "Table", or set_referenced_table is called in category
\* "Table", the referenced-table combo is not set from the referenced table
\* name passed: set_data_source ends in the same state for every such name,
\* and set_referenced_table changes nothing.
C15_FrameConditions ==
    [][ /\ (selector'.op = "set_data_source" /\ selector'.arg.name = "") =>
               Shown(selector') = Shown(selector)
        /\ (selector'.op = "set_data_source" /\ category(selector') = "Table") =>
               \A r \in ReferencedTableNames :
                   Shown(set_data_source(selector,
                             [selector'.arg EXCEPT !.referenced_table_name = r]))
                       = Shown(selector')
        /\ (selector'.op = "set_referenced_table" /\ category(selector') = "Table") =>
               Shown(selector') = Shown(selector)
      ]_vars

\* set_data_source has switched the selector to category "Table" and selected
\* a table, for a data source that names another table as its referenced
\* table: the referenced-table combo shows the selected table, not that one.
C15_Witness ==
    /\ selector.op = "set_data_source"
    /\ selector.arg.name = "pr_party"
    /\ selector.arg.category = "Table"
    /\ selector.arg.referenced_table_name = "pr_parcel"
    /\ category(selector) = "Table"
    /\ selector.toggled
    /\ ItemData(selector.dsItems, selector.dsIdx) = "pr_party"
    /\ referenced_table_name(selector) # "pr_parcel"

=============================================================================
